---- MODULE Spec2Model ----
(***************************************************************************)
(* Model of HeartRate-Display (src/src/main.rs): a BLE Heart Rate client.  *)
(*                                                                         *)
(*  - parse_heart_rate_data is the pure decoder of a Heart Rate            *)
(*    Measurement payload (GATT 0x2A37).                                   *)
(*  - find_heart_rate_device scans and picks a peripheral.                 *)
(*  - main drives scan, connect, discover, subscribe, the notification     *)
(*    loop and the final disconnect.                                       *)
(*                                                                         *)
(* The BLE transport (btleplug) is the environment: each of its calls      *)
(* either succeeds or fails, and it pushes notifications into the stream   *)
(* and closes the stream when it chooses.                                  *)
(***************************************************************************)
EXTENDS Integers, Sequences, FiniteSets, TLC

\* ------------------------------------------------------------------ bounds
\* longest payload of the decoder's input space
MaxLen == 3
\* longest run of extra bytes appended after a payload
MaxTail == 2
\* most peripherals the adapter enumerates
MaxPeripherals == 2
\* most characteristics in the table after service discovery
MaxChars == 2
\* most notifications the transport delivers in one run
MaxNotif == 2

\* ------------------------------------------------------- bytes and options
\* u8 values used to build payloads: both values of bit 0, with and without
\* higher flag bits, small and extreme value bytes
ByteValues == {0, 1, 2, 72, 129, 255}

RECURSIVE SeqsOfLen(_, _)
SeqsOfLen(S, n) ==
    IF n = 0 THEN {<<>>}
    ELSE {Append(s, x) : s \in SeqsOfLen(S, n - 1), x \in S}

SeqsUpTo(S, n) == UNION {SeqsOfLen(S, k) : k \in 0..n}

\* every payload of at most MaxLen bytes
Payloads == SeqsUpTo(ByteValues, MaxLen)

\* trailing byte runs
Tails == SeqsUpTo({0, 255}, MaxTail)

\* Option<u16>
None == [some |-> FALSE]
Some(v) == [some |-> TRUE, v |-> v]

\* bitwise AND of two naturals (the & of `flags & 0x01`)
RECURSIVE BitAnd(_, _)
BitAnd(a, b) ==
    IF a = 0 \/ b = 0 THEN 0
    ELSE (a % 2) * (b % 2) + 2 * BitAnd(a \div 2, b \div 2)

\* `data[1] as u16`: widening an u8 keeps the value
as_u16(b) == b % 65536

\* u16::from_le_bytes([lo, hi])
from_le_bytes_swapped(lo, hi) == (hi + 256 * lo) % 65536
from_le_bytes(lo, hi) == (lo + 256 * hi) % 65536

\* the value read when the flags say uint8 (main.rs 30-36); payloads are
\* 1-indexed here, data[1] of the source is d[2]
read_uint8_reads_flags(d) == IF Len(d) < 2 THEN None ELSE Some(as_u16(d[1]))
read_uint8(d) == IF Len(d) < 2 THEN None ELSE Some(as_u16(d[2]))

\* the value read when the flags say uint16 (main.rs 24-29)
read_uint16(d) == IF Len(d) < 3 THEN None ELSE Some(from_le_bytes(d[2], d[3]))

\* parse_heart_rate_data (main.rs 14-39)
parse_defaults_to_zero(d) ==
    IF Len(d) = 0 THEN None
    ELSE IF BitAnd(d[1], 1) # 0
         THEN (IF Len(d) < 3 THEN Some(0) ELSE Some(from_le_bytes(d[2], d[3])))
         ELSE (IF Len(d) < 2 THEN Some(0) ELSE Some(as_u16(d[2])))
parse_reads_last_bytes(d) ==
    IF Len(d) = 0 THEN None
    ELSE IF BitAnd(d[1], 1) # 0
         THEN (IF Len(d) < 3 THEN None
               ELSE Some(from_le_bytes(d[Len(d) - 1], d[Len(d)])))
         ELSE (IF Len(d) < 2 THEN None ELSE Some(as_u16(d[Len(d)])))
parse_tests_whole_flags(d) ==
    IF Len(d) = 0 THEN None
    ELSE IF d[1] # 0 THEN read_uint16(d) ELSE read_uint8(d)
parse_heart_rate_data(d) ==
    IF Len(d) = 0 THEN None
    ELSE LET flags == d[1]
             is_16bit_hr == BitAnd(flags, 1) # 0
         IN  IF is_16bit_hr THEN read_uint16(d) ELSE read_uint8(d)

\* ------------------------------------------------------------ environment
\* what peripheral.properties() yields for an enumerated peripheral:
\*   "hr"        Ok(Some(p)), p.services contains HEART_RATE_SERVICE_UUID
\*   "other"     Ok(Some(p)), p.services lacks it
\*   "no_props"  Ok(None): no advertisement properties known
\*   "props_err" Err(_): the properties could not be read
PeripheralKinds == {"hr", "other", "no_props", "props_err"}

\* what adapter.peripherals() can enumerate
PeripheralLists == SeqsUpTo(PeripheralKinds, MaxPeripherals)

\* a GATT characteristic: its UUID class and whether it has CharPropFlags::NOTIFY
CharKinds ==
    { [uuid |-> "2A37", notify |-> TRUE],
      [uuid |-> "2A37", notify |-> FALSE],
      [uuid |-> "other", notify |-> TRUE] }

\* what peripheral.characteristics() can hold after discover_services()
CharTables == SeqsUpTo(CharKinds, MaxChars)

\* payloads the peripheral sends as notifications: empty, truncated 8-bit,
\* valid 8-bit, valid 16-bit
StreamPayloads == { <<>>, <<0>>, <<0, 72>>, <<1, 72, 1>> }

\* the transport operations main and find_heart_rate_device call
CallNames ==
    {"start_scan", "peripherals", "is_connected", "connect",
     "discover_services", "subscribe", "notifications", "disconnect"}

\* ------------------------------------------------------------------ state
VARIABLES
    pc,                   \* position of main / find_heart_rate_device
    result,               \* "running", "Ok" or the error main returned
    scanning,             \* the adapter is scanning
    peripherals,          \* the Vec adapter.peripherals() returned
    pidx,                 \* position of the for loop over peripherals
    heart_rate_device,    \* index of the chosen peripheral, 0 = None
    connected,            \* the peripheral's link is up
    characteristics,      \* heart_rate_device.characteristics()
    hr_characteristic,    \* index found in characteristics, 0 = none
    subscribed,           \* notifications are enabled on the characteristic
    arrived,              \* every notification delivered, in arrival order
    notification_stream,  \* delivered notifications not yet taken by next()
    stream_closed,        \* the transport ended the stream
    notification,         \* <<value>> held by the loop body, <<>> if none
    emitted,              \* the lines printed by the loop, in order
    calls,                \* how often each transport operation was invoked
    data,                 \* decoder harness: the input bytes
    ret,                  \* decoder harness: the returned Option<u16>
    returned              \* decoder harness: the call has returned

vars ==
    <<pc, result, scanning, peripherals, pidx, heart_rate_device, connected,
      characteristics, hr_characteristic, subscribed, arrived,
      notification_stream, stream_closed, notification, emitted, calls,
      data, ret, returned>>

scanVars == <<scanning, peripherals, pidx, heart_rate_device>>
gattVars == <<characteristics, hr_characteristic, subscribed>>
streamVars == <<arrived, notification_stream, stream_closed, notification, emitted>>
decoderVars == <<data, ret, returned>>

Call(op) == calls' = [calls EXCEPT ![op] = @ + 1]

\* main returns Err(e): every `?` of main leaves through here
Abort(e) == pc' = "done" /\ result' = e

\* --------------------------------------------------------------- actions
\* the state after construction: nothing called yet; the peripheral may
\* already be linked to this host before the program starts
Init ==
    /\ pc = "init"
    /\ result = "running"
    /\ scanning = FALSE
    /\ peripherals = <<>>
    /\ pidx = 0
    /\ heart_rate_device = 0
    /\ connected \in BOOLEAN
    /\ characteristics = <<>>
    /\ hr_characteristic = 0
    /\ subscribed = FALSE
    /\ arrived = <<>>
    /\ notification_stream = <<>>
    /\ stream_closed = FALSE
    /\ notification = <<>>
    /\ emitted = <<>>
    /\ calls = [op \in CallNames |-> 0]
    /\ data = <<>>
    /\ ret = None
    /\ returned = FALSE

\* main.rs 67-77: manager, first adapter, adapter_info
InitAdapter ==
    /\ pc = "init"
    /\ \/ pc' = "start_scan" /\ UNCHANGED result
       \/ Abort("Err:adapter")
    /\ UNCHANGED <<scanVars, connected, gattVars, streamVars, calls, decoderVars>>

\* find_heart_rate_device returns None; main.rs 81-83 turns it into an error
ReturnNone == heart_rate_device' = 0 /\ Abort("Err:device_not_found")

\* main.rs 44-45: start_scan(..).await.ok()? then the 2 s sleep
StartScan ==
    /\ pc = "start_scan"
    /\ Call("start_scan")
    /\ \/ scanning' = TRUE /\ pc' = "peripherals"
          /\ UNCHANGED <<heart_rate_device, result>>
       \/ ReturnNone /\ UNCHANGED scanning
    /\ UNCHANGED <<peripherals, pidx, connected, gattVars, streamVars, decoderVars>>

\* main.rs 48-49: adapter.peripherals().await.ok()? and the loop entry
EnumeratePeripherals ==
    /\ pc = "peripherals"
    /\ Call("peripherals")
    /\ \/ \E ps \in PeripheralLists :
             /\ peripherals' = ps
             /\ IF ps = <<>>
                THEN ReturnNone /\ UNCHANGED pidx
                ELSE pidx' = 1 /\ pc' = "properties"
                     /\ UNCHANGED <<heart_rate_device, result>>
       \/ ReturnNone /\ UNCHANGED <<peripherals, pidx>>
    /\ UNCHANGED <<scanning, connected, gattVars, streamVars, decoderVars>>

\* the loop goes on to the next peripheral, or falls out to `None`
NextPeripheral ==
    IF pidx < Len(peripherals)
    THEN pidx' = pidx + 1 /\ UNCHANGED <<pc, heart_rate_device, result>>
    ELSE ReturnNone /\ UNCHANGED pidx

\* main.rs 50-58: one iteration of the loop over the peripherals
CheckPeripheral_matches_other ==
    /\ pc = "properties"
    /\ LET kind == peripherals[pidx] IN
         CASE kind \in {"hr", "other"} ->
                 /\ heart_rate_device' = pidx
                 /\ pc' = "is_connected"
                 /\ UNCHANGED <<pidx, result>>
           [] OTHER -> ReturnNone /\ UNCHANGED pidx
    /\ UNCHANGED <<scanning, peripherals, connected, gattVars, streamVars,
                   calls, decoderVars>>
CheckPeripheral ==
    /\ pc = "properties"
    /\ LET kind == peripherals[pidx] IN
         CASE kind = "hr" ->
                 /\ heart_rate_device' = pidx
                 /\ pc' = "is_connected"
                 /\ UNCHANGED <<pidx, result>>
           [] kind = "other" -> NextPeripheral
           [] OTHER -> ReturnNone /\ UNCHANGED pidx
    /\ UNCHANGED <<scanning, peripherals, connected, gattVars, streamVars,
                   calls, decoderVars>>

\* main.rs 86: is_connected().await? decides whether connect is called
IsConnected_skips_connect ==
    /\ pc = "is_connected"
    /\ Call("is_connected")
    /\ \/ pc' = "discover_services" /\ UNCHANGED result
       \/ Abort("Err:is_connected")
    /\ UNCHANGED <<scanVars, connected, gattVars, streamVars, decoderVars>>
IsConnected_always_connects ==
    /\ pc = "is_connected"
    /\ Call("is_connected")
    /\ \/ pc' = "connect" /\ UNCHANGED result
       \/ Abort("Err:is_connected")
    /\ UNCHANGED <<scanVars, connected, gattVars, streamVars, decoderVars>>
IsConnected ==
    /\ pc = "is_connected"
    /\ Call("is_connected")
    /\ \/ pc' = (IF connected THEN "discover_services" ELSE "connect")
          /\ UNCHANGED result
       \/ Abort("Err:is_connected")
    /\ UNCHANGED <<scanVars, connected, gattVars, streamVars, decoderVars>>

\* main.rs 87-89: connect().await?
Connect_retries ==
    /\ pc = "connect"
    /\ Call("connect")
    /\ \/ connected' = TRUE /\ pc' = "discover_services" /\ UNCHANGED result
       \/ UNCHANGED <<pc, result, connected>>
    /\ UNCHANGED <<scanVars, gattVars, streamVars, decoderVars>>
Connect ==
    /\ pc = "connect"
    /\ Call("connect")
    /\ \/ connected' = TRUE /\ pc' = "discover_services" /\ UNCHANGED result
       \/ Abort("Err:connect") /\ UNCHANGED connected
    /\ UNCHANGED <<scanVars, gattVars, streamVars, decoderVars>>

\* main.rs 97-102: first characteristic with the measurement UUID and NOTIFY
FindCharacteristic_ignores_notify(table) ==
    LET hits == {i \in 1..Len(table) : table[i].uuid = "2A37"}
    IN  IF hits = {} THEN 0 ELSE CHOOSE i \in hits : \A j \in hits : i <= j
FindCharacteristic(table) ==
    LET hits == {i \in 1..Len(table) :
                    table[i].uuid = "2A37" /\ table[i].notify}
    IN  IF hits = {} THEN 0 ELSE CHOOSE i \in hits : \A j \in hits : i <= j

\* main.rs 93-105: discover_services().await?, characteristics(), find
DiscoverServices ==
    /\ pc = "discover_services"
    /\ Call("discover_services")
    /\ \/ \E table \in CharTables :
             /\ characteristics' = table
             /\ hr_characteristic' = FindCharacteristic(table)
             /\ IF FindCharacteristic(table) = 0
                THEN Abort("Err:no_hr_characteristic")
                ELSE pc' = "subscribe" /\ UNCHANGED result
       \/ Abort("Err:discover_services")
          /\ UNCHANGED <<characteristics, hr_characteristic>>
    /\ UNCHANGED <<scanVars, connected, subscribed, streamVars, decoderVars>>

\* main.rs 108-109: subscribe(hr_characteristic).await?
Subscribe ==
    /\ pc = "subscribe"
    /\ Call("subscribe")
    /\ \/ subscribed' = TRUE /\ pc' = "notifications" /\ UNCHANGED result
       \/ Abort("Err:subscribe") /\ UNCHANGED subscribed
    /\ UNCHANGED <<scanVars, connected, characteristics, hr_characteristic,
                   streamVars, decoderVars>>

\* main.rs 112: notifications().await?
Notifications ==
    /\ pc = "notifications"
    /\ Call("notifications")
    /\ \/ pc' = "next" /\ UNCHANGED result
       \/ Abort("Err:notifications")
    /\ UNCHANGED <<scanVars, connected, gattVars, streamVars, decoderVars>>

\* ------------------------------------------------- the notification loop
\* the stream has been handed to main and is being consumed
StreamOpen == pc \in {"next", "body"}

\* transport: the subscribed peripheral pushes one more notification
Arrive ==
    /\ StreamOpen
    /\ subscribed
    /\ ~stream_closed
    /\ Len(arrived) < MaxNotif
    /\ \E value \in StreamPayloads :
          /\ arrived' = Append(arrived, value)
          /\ notification_stream' = Append(notification_stream, value)
    /\ UNCHANGED <<pc, result, scanVars, connected, gattVars, stream_closed,
                   notification, emitted, calls, decoderVars>>

\* transport: the stream ends (the peripheral went away, or the link dropped)
EndStream ==
    /\ StreamOpen
    /\ ~stream_closed
    /\ stream_closed' = TRUE
    /\ connected' \in {connected, FALSE}
    /\ UNCHANGED <<pc, result, scanVars, gattVars, arrived, notification_stream,
                   notification, emitted, calls, decoderVars>>

\* main.rs 113: `while let Some(notification) = notification_stream.next().await`
NextNotification_takes_newest ==
    /\ pc = "next"
    /\ IF notification_stream # <<>>
       THEN /\ notification' = <<notification_stream[Len(notification_stream)]>>
            /\ notification_stream' =
                   SubSeq(notification_stream, 1, Len(notification_stream) - 1)
            /\ pc' = "body"
       ELSE /\ stream_closed
            /\ pc' = "disconnect"
            /\ UNCHANGED <<notification, notification_stream>>
    /\ UNCHANGED <<result, scanVars, connected, gattVars, arrived, stream_closed,
                   emitted, calls, decoderVars>>
NextNotification_returns_at_end ==
    /\ pc = "next"
    /\ IF notification_stream # <<>>
       THEN /\ notification' = <<Head(notification_stream)>>
            /\ notification_stream' = Tail(notification_stream)
            /\ pc' = "body"
            /\ UNCHANGED result
       ELSE /\ stream_closed
            /\ Abort("Ok")
            /\ UNCHANGED <<notification, notification_stream>>
    /\ UNCHANGED <<scanVars, connected, gattVars, arrived, stream_closed,
                   emitted, calls, decoderVars>>
NextNotification ==
    /\ pc = "next"
    /\ IF notification_stream # <<>>
       THEN /\ notification' = <<Head(notification_stream)>>
            /\ notification_stream' = Tail(notification_stream)
            /\ pc' = "body"
       ELSE /\ stream_closed
            /\ pc' = "disconnect"
            /\ UNCHANGED <<notification, notification_stream>>
    /\ UNCHANGED <<result, scanVars, connected, gattVars, arrived, stream_closed,
                   emitted, calls, decoderVars>>

\* main.rs 115 and 117: the line printed for a notification value
Emission(value) ==
    LET heart_rate == parse_heart_rate_data(value)
    IN  IF heart_rate.some
        THEN [kind |-> "heart_rate", bpm |-> heart_rate.v]
        ELSE [kind |-> "parse_failed", value |-> value]

\* main.rs 114-118: the loop body, decode and print
LoopBody_stops_on_failure ==
    /\ pc = "body"
    /\ emitted' = Append(emitted, Emission(notification[1]))
    /\ notification' = <<>>
    /\ pc' = (IF parse_heart_rate_data(notification[1]).some
              THEN "next" ELSE "disconnect")
    /\ UNCHANGED <<result, scanVars, connected, gattVars, arrived,
                   notification_stream, stream_closed, calls, decoderVars>>
LoopBody_disconnects_on_failure ==
    /\ pc = "body"
    /\ emitted' = Append(emitted, Emission(notification[1]))
    /\ notification' = <<>>
    /\ pc' = "next"
    /\ IF parse_heart_rate_data(notification[1]).some
       THEN UNCHANGED calls
       ELSE Call("disconnect")
    /\ UNCHANGED <<result, scanVars, connected, gattVars, arrived,
                   notification_stream, stream_closed, decoderVars>>
LoopBody ==
    /\ pc = "body"
    /\ emitted' = Append(emitted, Emission(notification[1]))
    /\ notification' = <<>>
    /\ pc' = "next"
    /\ UNCHANGED <<result, scanVars, connected, gattVars, arrived,
                   notification_stream, stream_closed, calls, decoderVars>>

\* main.rs 122-125: disconnect().await? and Ok(())
Disconnect ==
    /\ pc = "disconnect"
    /\ Call("disconnect")
    /\ \/ connected' = FALSE /\ subscribed' = FALSE /\ Abort("Ok")
       \/ Abort("Err:disconnect") /\ UNCHANGED <<connected, subscribed>>
    /\ UNCHANGED <<scanVars, characteristics, hr_characteristic, streamVars,
                   decoderVars>>

Next ==
    \/ InitAdapter
    \/ StartScan
    \/ EnumeratePeripherals
    \/ CheckPeripheral
    \/ IsConnected
    \/ Connect
    \/ DiscoverServices
    \/ Subscribe
    \/ Notifications
    \/ Arrive
    \/ EndStream
    \/ NextNotification
    \/ LoopBody
    \/ Disconnect

Spec == Init /\ [][Next]_vars

\* ------------------------------------------------------------ cancellation
\* The operator's interrupt (the Ctrl+C that main.rs 109 announces). main
\* installs no signal handler and awaits nothing but the transport, so the
\* signal's default disposition ends the process where it stands: no further
\* statement of main runs.
Interrupt ==
    /\ pc \notin {"done", "killed"}
    /\ pc' = "killed"
    /\ UNCHANGED <<result, scanVars, connected, gattVars, streamVars, calls,
                   decoderVars>>

NextCancel == Next \/ Interrupt

SpecCancel == Init /\ [][NextCancel]_vars

\* --------------------------------------------------------- decoder harness
\* parse_heart_rate_data called on every payload of the input space
InitDecoder ==
    /\ pc = "init"
    /\ result = "running"
    /\ scanning = FALSE
    /\ peripherals = <<>>
    /\ pidx = 0
    /\ heart_rate_device = 0
    /\ connected = FALSE
    /\ characteristics = <<>>
    /\ hr_characteristic = 0
    /\ subscribed = FALSE
    /\ arrived = <<>>
    /\ notification_stream = <<>>
    /\ stream_closed = FALSE
    /\ notification = <<>>
    /\ emitted = <<>>
    /\ calls = [op \in CallNames |-> 0]
    /\ data \in Payloads
    /\ ret = None
    /\ returned = FALSE

\* one call of parse_heart_rate_data(data)
Decode ==
    /\ ~returned
    /\ ret' = parse_heart_rate_data(data)
    /\ returned' = TRUE
    /\ UNCHANGED <<pc, result, scanVars, connected, gattVars, streamVars,
                   calls, data>>

NextDecoder == Decode

SpecDecoder == InitDecoder /\ [][NextDecoder]_vars

\* ------------------------------------------------------------ properties
\* the notification loop was entered: notifications() succeeded
LoopReached == calls["notifications"] = 1 /\ result # "Err:notifications"

\* the stream has ended and everything delivered before the end was taken
StreamDrained == stream_closed /\ notification_stream = <<>>

\* C1: once the notification loop is reached, the end of the stream makes the
\* loop exit to the disconnect call, and disconnect() has been invoked exactly
\* once when the run is over (never before, never twice), however many
\* notifications were received and however many of them failed to decode.
C1_StreamEndDisconnectsOnce ==
    /\ [](LoopReached =>
            /\ calls["disconnect"] = (IF pc = "done" THEN 1 ELSE 0)
            /\ (pc \in {"disconnect", "done"} =>
                    StreamDrained /\ Len(emitted) = Len(arrived)))
    /\ [][pc = "next" /\ StreamDrained => pc' = "disconnect"]_vars
    /\ [][pc = "disconnect" => pc' = "done" /\ calls'["disconnect"] = 1]_vars

\* C1 witness: a finished run whose notifications were all malformed
C1_Witness ==
    /\ pc = "done"
    /\ calls["disconnect"] = 1
    /\ Len(emitted) >= 2
    /\ \A i \in 1..Len(emitted) : emitted[i].kind = "parse_failed"

\* errors main returns from a setup step that runs on a connected peripheral
SetupErrorsAfterConnect ==
    {"Err:discover_services", "Err:no_hr_characteristic", "Err:subscribe",
     "Err:notifications"}

\* C2: a run that fails in a setup step after the connection was established
\* ends only after disconnect() was attempted.
C2_SetupFailureDisconnects ==
    (pc = "done" /\ result \in SetupErrorsAfterConnect)
        => calls["disconnect"] >= 1

\* bit 0 of the flags byte, stated arithmetically
Bit0Set(d) == d[1] % 2 = 1

\* C3: a payload of length >= 2 with flags bit 0 clear decodes to
\* Some(payload[1]), a value in 0..255, whatever the other bytes are.
C3_Uint8Value ==
    (returned /\ Len(data) >= 2 /\ ~Bit0Set(data))
        => ret = Some(data[2]) /\ ret.v \in 0..255

\* C3 witness: an 8-bit payload with a trailing byte and extra flag bits decoded
C3_Witness ==
    /\ returned
    /\ Len(data) = 3
    /\ data[1] = 2
    /\ data[2] = 255
    /\ ret = Some(255)

\* C4: a payload of length >= 3 with flags bit 0 set decodes to
\* Some(payload[1] + 256 * payload[2]).
C4_Uint16Value ==
    (returned /\ Len(data) >= 3 /\ Bit0Set(data))
        => ret = Some(data[2] + 256 * data[3])

\* C4 witness: a 16-bit payload whose two value bytes differ decoded
C4_Witness ==
    /\ returned
    /\ data = <<129, 72, 1>>
    /\ ret = Some(328)

\* non-empty but too short for the width the flags declare
Truncated(d) ==
    /\ Len(d) > 0
    /\ Len(d) < (IF Bit0Set(d) THEN 3 ELSE 2)

C6_TrailingBytesIgnored ==
    (returned /\ ret.some)
        => \A t \in Tails : parse_heart_rate_data(data \o t) = ret

\* C6 witness: a decoded 8-bit payload that already carries a trailing byte
C6_Witness ==
    /\ returned
    /\ ret.some
    /\ data = <<0, 72, 255>>

\* the loop body holds a notification that does not decode
HoldsMalformed ==
    /\ pc = "body"
    /\ ~parse_heart_rate_data(notification[1]).some

\* C7: the loop body's step on a notification that fails to decode prints the
\* diagnostic, invokes no transport operation (no disconnect), leaves the
\* subscription up and returns to waiting for the next notification.
C7_DecodeFailureContinues ==
    [][(HoldsMalformed /\ pc' # pc) =>
          /\ pc' = "next"
          /\ emitted' = Append(emitted,
                 [kind |-> "parse_failed", value |-> notification[1]])
          /\ calls' = calls
          /\ subscribed' /\ subscribed
          /\ result' = "running"]_vars

\* C7 witness: a notification was printed after one that failed to decode
C7_Witness ==
    /\ Len(emitted) >= 2
    /\ emitted[1].kind = "parse_failed"
    /\ emitted[2].kind = "heart_rate"

\* C8: one emission per notification, in arrival order: the emissions are the
\* lines of the first arrivals, at most one notification is in the loop body
\* at a time, and what has arrived and was not printed is still queued in
\* arrival order behind it.
C8_ArrivalOrder ==
    /\ Len(emitted) <= Len(arrived)
    /\ \A i \in 1..Len(emitted) : emitted[i] = Emission(arrived[i])
    /\ Len(notification) <= 1
    /\ (pc = "body") <=> (Len(notification) = 1)
    /\ SubSeq(arrived, Len(emitted) + 1, Len(arrived))
           = notification \o notification_stream

\* C8 witness: two different notifications printed while both were queued
C8_Witness ==
    /\ Len(emitted) = 2
    /\ arrived[1] # arrived[2]
    /\ emitted[1].kind = "heart_rate"
    /\ emitted[2].kind = "parse_failed"

\* index of the first enumerated peripheral that advertises the service
FirstMatch(ps) ==
    LET hits == {i \in 1..Len(ps) : ps[i] = "hr"}
    IN  IF hits = {} THEN 0 ELSE CHOOSE i \in hits : \A j \in hits : i <= j

\* find_heart_rate_device has returned after a successful start_scan
DiscoverReturned ==
    /\ scanning
    /\ pc \notin {"peripherals", "properties"}

\* C9: after a successful scan start, discover returns the first enumerated
\* peripheral that advertises the Heart Rate service, and None only if none
\* does.
C9_ReturnsFirstMatch ==
    DiscoverReturned => heart_rate_device = FirstMatch(peripherals)

\* no enumerated peripheral advertises the Heart Rate service
NoneAdvertises == \A i \in 1..Len(peripherals) : peripherals[i] # "hr"

\* C10: when no enumerated peripheral advertises the Heart Rate service, no
\* device is chosen, no connect, discover_services, subscribe or disconnect
\* is issued, and the run ends with the device-not-found error.
C10_NoMatchFailsFast ==
    (calls["peripherals"] = 1 /\ pc # "peripherals" /\ NoneAdvertises) =>
        /\ heart_rate_device = 0
        /\ \A op \in {"is_connected", "connect", "discover_services",
                      "subscribe", "notifications", "disconnect"} :
              calls[op] = 0
        /\ pc \in {"properties", "done"}
        /\ (pc = "done" => result = "Err:device_not_found")

\* C10 witness: a scan that saw only peripherals of other services ended
C10_Witness ==
    /\ pc = "done"
    /\ Len(peripherals) >= 2
    /\ \A i \in 1..Len(peripherals) : peripherals[i] = "other"
    /\ result = "Err:device_not_found"

\* find_heart_rate_device has returned, with Some or with None
ScannerReturned == pc \notin {"init", "start_scan", "peripherals", "properties"}

\* C11: the adapter is never scanning once find_heart_rate_device has
\* returned, on any return path.
C11_ScanStoppedOnReturn == ScannerReturned => ~scanning

\* some characteristic has the measurement UUID and the notify capability
HasNotifyingMeasurement ==
    \E i \in 1..Len(characteristics) :
        /\ characteristics[i].uuid = "2A37"
        /\ characteristics[i].notify

\* discover_services() succeeded and the characteristic table was read
ServicesDiscovered ==
    /\ calls["discover_services"] = 1
    /\ result # "Err:discover_services"

\* C12: when the discovered table has no characteristic with the measurement
\* UUID and notify, subscribe is never issued, the connection is never
\* subscribed, no notification is consumed or printed, and the run has
\* failed with the unsupported-characteristic error.
C12_UnsupportedNeverSubscribes ==
    (ServicesDiscovered /\ ~HasNotifyingMeasurement) =>
        /\ hr_characteristic = 0
        /\ calls["subscribe"] = 0
        /\ calls["notifications"] = 0
        /\ ~subscribed
        /\ arrived = <<>>
        /\ emitted = <<>>
        /\ pc = "done"
        /\ result = "Err:no_hr_characteristic"

\* C12 witness: the table holds the measurement characteristic without notify
C12_Witness ==
    /\ ServicesDiscovered
    /\ ~HasNotifyingMeasurement
    /\ \E i \in 1..Len(characteristics) : characteristics[i].uuid = "2A37"
    /\ result = "Err:no_hr_characteristic"

\* the transport operation op is invoked in this step
Invoked(op) == calls'[op] # calls[op]

\* C13: the lifecycle skips no state. discover_services is invoked only on a
\* connected peripheral of a run that has not failed; subscribe is invoked
\* only after discover_services succeeded and the characteristic was found;
\* the connection becomes subscribed only by that subscribe call; and once
\* the run has ended (with an error or not) nothing further is invoked,
\* subscribed or printed.
C13_LifecycleInOrder ==
    /\ [](subscribed =>
            ServicesDiscovered /\ hr_characteristic # 0 /\ calls["subscribe"] = 1)
    /\ [][Invoked("discover_services") =>
            connected /\ result = "running" /\ calls["is_connected"] = 1]_vars
    /\ [][Invoked("subscribe") =>
            /\ ServicesDiscovered
            /\ HasNotifyingMeasurement
            /\ ~subscribed
            /\ result = "running"]_vars
    /\ [][(subscribed' /\ ~subscribed) => Invoked("subscribe")]_vars
    /\ [][Invoked("notifications") => subscribed /\ result = "running"]_vars
    /\ [][result # "running" =>
            calls' = calls /\ emitted' = emitted /\ subscribed' = subscribed]_vars

\* C13 witness: a run that connected, discovered and subscribed, in that order
C13_Witness ==
    /\ pc = "next"
    /\ subscribed
    /\ calls["connect"] = 1
    /\ calls["discover_services"] = 1
    /\ calls["subscribe"] = 1

\* C14: connect() is invoked only on a peripheral that is not connected; when
\* is_connected() finds it connected, main goes straight on to service
\* discovery without a connect call.
C14_ConnectOnlyWhenNotConnected ==
    /\ [][Invoked("connect") => ~connected]_vars
    /\ [][(pc = "is_connected" /\ connected
              /\ pc' \notin {"is_connected", "done"}) =>
            /\ pc' = "discover_services"
            /\ connected'
            /\ calls'["connect"] = 0]_vars

\* C14 witness: a run on an already connected peripheral reached the loop
\* without any connect call
C14_Witness ==
    /\ pc = "next"
    /\ subscribed
    /\ calls["connect"] = 0

\* C15: a run whose notification stream ended and that invoked disconnect()
\* finishes with success, whether or not the transport's disconnect failed.
C15_DisconnectErrorSwallowed ==
    (pc = "done" /\ LoopReached /\ calls["disconnect"] = 1) => result = "Ok"

\* the interrupt arrived while the notification loop was running
CancelledInLoop == pc = "killed" /\ LoopReached

\* C16: after a cancellation that arrives in the notification loop the
\* orchestrator goes to teardown: a cancelled run has invoked disconnect().
C16_CancelDisconnects == CancelledInLoop => calls["disconnect"] >= 1

\* start_scan() was invoked and failed
StartScanFailed == calls["start_scan"] = 1 /\ ~scanning

\* C17: a failure to start scanning ends the run with an error other than the
\* device-not-found error that stands for a scan without a match.
C17_StartScanErrorPropagated ==
    (pc = "done" /\ StartScanFailed) => result # "Err:device_not_found"

\* the payload d with its flags byte replaced by f
WithFlags(d, f) == [d EXCEPT ![1] = f]

\* C18: two payloads that differ only in bits 1 to 7 of the flags byte decode
\* to the same outcome.
C18_OnlyBit0Matters ==
    (returned /\ data # <<>>) =>
        \A f \in 0..255 :
            (f % 2 = data[1] % 2)
                => parse_heart_rate_data(WithFlags(data, f)) = ret

\* C18 witness: an 8-bit payload whose flags byte has a higher bit set decoded
C18_Witness ==
    /\ returned
    /\ data = <<2, 72>>
    /\ ret = Some(72)

\* the setup operations of the transport
SetupOps == {"start_scan", "connect", "discover_services", "subscribe"}

\* C19: each of start_scan, connect, discover_services and subscribe is
\* invoked at most once in a run, and none of them after the stream ended.
C19_NoRetry ==
    /\ [](\A op \in SetupOps : calls[op] <= 1)
    /\ [][stream_closed => \A op \in SetupOps : ~Invoked(op)]_vars

\* C19 witness: a run ended by a failed connect, with that one connect call
C19_Witness ==
    /\ pc = "done"
    /\ result = "Err:connect"
    /\ calls["connect"] = 1

\* C20: a line is printed, and a notification is taken for decoding, only
\* while the connection is subscribed and before disconnect() is invoked;
\* a run whose subscribe did not succeed receives and prints nothing.
C20_EmitOnlyWhileSubscribed ==
    /\ [][emitted' # emitted =>
            /\ subscribed
            /\ calls["subscribe"] = 1
            /\ calls["disconnect"] = 0
            /\ calls'["disconnect"] = 0]_vars
    /\ [][(notification' # notification /\ notification' # <<>>) =>
            subscribed /\ calls["disconnect"] = 0]_vars
    /\ []((calls["subscribe"] = 0 \/ result = "Err:subscribe") =>
            emitted = <<>> /\ arrived = <<>>)

\* C20 witness: a run that printed notifications and then disconnected
C20_Witness ==
    /\ pc = "done"
    /\ result = "Ok"
    /\ emitted # <<>>
    /\ calls["disconnect"] = 1

====
